---- MODULE Spec2Model ----
(***************************************************************************)
(* State-machine model of the cli-administratif tools:                     *)
(*   - utils.ts      : Secret Store access, Credential Resolver, Session   *)
(*                     Cache, terminal prompts, cookie parsing             *)
(*   - mon-kbis.ts   : legacy redirect-chase login, session reuse, KBIS    *)
(*                     download                                            *)
(*   - mes-echeances-urssaf.ts : OIDC-PKCE login and schedule fetch        *)
(*   - the standalone mes-echeances-urssaf script (no utils.ts)            *)
(* One run of one tool is active at a time (variable tool); every action   *)
(* is one awaited step of the code together with the synchronous code that *)
(* follows it up to the next await.  Remote responses, typed input and     *)
(* clock progress are chosen nondeterministically from small sets.         *)
(*                                                                         *)
(* Strings that the code inspects are sequences of tokens (a URL is        *)
(* <<scheme, host, path...>>, a text is a sequence of words, blanks and    *)
(* entities); a nullable value is a set with at most one element.          *)
(***************************************************************************)
EXTENDS Integers, Sequences, FiniteSets, TLC

\* ---------------------------------------------------------------- bounds
MaxTicks == 3
MaxDraws == 6

\* ------------------------------------------------------ program constants
TtlMinutes == 30
HopBudget == 5

\* ----------------------------------------------------- nullable values
Null == {}
Some(v) == {v}
The(o) == CHOOSE v \in o : TRUE
\* JavaScript truthiness of a nullable token sequence / of a nullable string
Truthy(o) == o # Null /\ The(o) # <<>>
TruthyStr_NonNull(o) == o # Null

TruthyStr(o) == o # Null /\ The(o) # ""

\* ------------------------------------------------------------- strings
Blank == {" ", "\n"}

RECURSIVE TrimStart(_)
TrimStart(s) ==
  IF s # <<>> /\ Head(s) \in Blank THEN TrimStart(Tail(s)) ELSE s

RECURSIVE TrimEnd(_)
TrimEnd(s) ==
  IF s # <<>> /\ s[Len(s)] \in Blank THEN TrimEnd(SubSeq(s, 1, Len(s) - 1)) ELSE s

\* String.prototype.trim
Trim(s) == TrimEnd(TrimStart(s))

\* String.prototype.replace(/x/g, y) on tokens
ReplaceAll(s, x, y) == [k \in DOMAIN s |-> IF s[k] = x THEN y ELSE s[k]]

\* String.prototype.includes
Includes(s, x) == \E k \in DOMAIN s : s[k] = x

\* nextUrl.startsWith("http")
StartsWithHttp(u) == u # <<>> /\ u[1] \in {"https://", "http://"}

\* fetch() rejects with a TypeError on a URL that is not absolute
CanFetch(o) == o # Null /\ StartsWithHttp(The(o))

HostOf(u) == u[2]

\* ------------------------------------------------------------- cookies
\* Set-Cookie headers of a response: a sequence of <<name, value>>
CookieGet(headers, name) ==
  IF \E k \in DOMAIN headers : headers[k][1] = name
  THEN Some(headers[CHOOSE k \in DOMAIN headers : headers[k][1] = name][2])
  ELSE Null

\* ---------------------------------------------------------------- JSON
\* JSON text of an object: the sequence of its <<key, value>> members
JsonField(text, key) == text[CHOOSE k \in DOMAIN text : text[k][1] = key][2]

CredentialsJson_Swapped(login, password) == << <<"login", password>>, <<"password", login>> >>

CredentialsJson(login, password) == << <<"login", login>>, <<"password", password>> >>

SessionJson(token, expiresAt) == << <<"token", token>>, <<"expiresAt", expiresAt>> >>

ParseCredentials(text) ==
  [login |-> JsonField(text, "login"), password |-> JsonField(text, "password")]

\* -------------------------------------------------------- Secret Store
KEYCHAIN_SERVICE == "cli-administratif"

SecretsGet_Absent(s, key) == Null

SecretsGet(s, key) == IF key \in DOMAIN s THEN Some(s[key]) ELSE Null

SecretsSet_Merging(s, key, value) ==
  [k \in DOMAIN s \cup {key} |->
     IF k = key
     THEN IF key \in DOMAIN s /\ Len(s[key]) = Len(value) /\ Len(value) = 2
          THEN <<s[key][1], value[2]>>
          ELSE value
     ELSE s[k]]

SecretsSet(s, key, value) ==
  [k \in DOMAIN s \cup {key} |-> IF k = key THEN value ELSE s[k]]

SecretsDelete_Tombstone(s, key) ==
  IF key \in DOMAIN s THEN [k \in DOMAIN s \ {key} |-> s[k]]
  ELSE [k \in DOMAIN s \cup {key} |-> IF k = key THEN <<>> ELSE s[k]]

SecretsDelete(s, key) == [k \in DOMAIN s \ {key} |-> s[k]]

CredKey(name) == <<KEYCHAIN_SERVICE, name>>

sessionKey(name) == IF name = "kbis" THEN "kbis-session" ELSE "urssaf-session"

SessKey(name) == <<KEYCHAIN_SERVICE, sessionKey(name)>>

\* ------------------------------------------------------- Session Cache
Expired_Inclusive(t, expiresAt) == t >= expiresAt

Expired(t, expiresAt) == t > expiresAt

ExpiresAt_Seconds(t, ttlMinutes) == t + ttlMinutes * 60

ExpiresAt(t, ttlMinutes) == t + ttlMinutes * 60 * 1000

\* getSessionToken after the store read: the value returned and whether the
\* entry is deleted
GetSessionToken_NoEvict(storedOpt, t) ==
  IF storedOpt = Null THEN [ret |-> Null, del |-> FALSE]
  ELSE IF Expired(t, JsonField(The(storedOpt), "expiresAt"))
       THEN [ret |-> Null, del |-> FALSE]
       ELSE [ret |-> Some(JsonField(The(storedOpt), "token")), del |-> FALSE]

GetSessionToken(storedOpt, t) ==
  IF storedOpt = Null THEN [ret |-> Null, del |-> FALSE]
  ELSE IF Expired(t, JsonField(The(storedOpt), "expiresAt"))
       THEN [ret |-> Null, del |-> TRUE]
       ELSE [ret |-> Some(JsonField(The(storedOpt), "token")), del |-> FALSE]

\* ------------------------------------------------------------ HTML text
\* body.match(/class="alert[^"]*"[^>]*>([^<]+)/): the text that follows the
\* opening tag of the first alert element (Null when nothing matches), then
\* .replace(/&#39;/g, "'").trim(), or "Erreur inconnue"
ErrorMessage_Unknown(alert) == <<"Erreur inconnue">>

ErrorMessage(alert) ==
  IF alert # Null THEN Trim(ReplaceAll(The(alert), "&#39;", "'"))
  ELSE <<"Erreur inconnue">>

\* actionMatch[1].replace(/&amp;/g, "&")
ActionUrl(action) == ReplaceAll(action, "&amp;", "&")

\* !redirectUrl || !redirectUrl.includes("monidenum.fr")
UnexpectedRedirect(redirectUrl) ==
  ~Truthy(redirectUrl) \/ ~Includes(The(redirectUrl), "monidenum.fr")

\* nextUrl.startsWith("http") ? nextUrl : `https://monidenum.fr${nextUrl}`
ResolveNext(nextUrl) ==
  IF StartsWithHttp(nextUrl) THEN nextUrl ELSE <<"https://", "monidenum.fr">> \o nextUrl

\* keycloakRes.headers.getSetCookie() filtered on AUTH_SESSION_ID*
AuthCookies(headers) ==
  SelectSeq(headers, LAMBDA c : c[1] \in {"AUTH_SESSION_ID", "AUTH_SESSION_ID_LEGACY"})

\* ------------------------------------------------------- environment sets
\* lines typed at a prompt
LoginLines == { <<"u", "\n">> }
PasswordLines == { <<"p", "\n">>, <<" ", "q", " ", "\n">> }

PortalUrl == <<"https://", "monidenum.fr", "/mon-espace">>
IdpUrl == <<"https://", "idp.example", "/auth">>
ForeignUrl == <<"https://", "evil.example", "/x">>
ForeignMentionUrl == <<"https://", "evil.example", "/?next=", "monidenum.fr">>
RelativeUrl == <<"/connect">>

\* Location header values of a response
Locations ==
  {Null, Some(<<>>), Some(PortalUrl), Some(ForeignUrl), Some(ForeignMentionUrl),
   Some(RelativeUrl)}

\* first action="..." attribute of the identity provider's page
ActionAttrs ==
  {Null, Some(<<"https://", "idp.example", "/login-actions", "&amp;", "tab">>),
   Some(<<"/login-actions">>)}

IdpCookieHeaders ==
  { <<>>, << <<"AUTH_SESSION_ID", "a1">>, <<"KC_RESTART", "k1">> >> }

\* text after the alert element's opening tag
Alerts ==
  {Null, Some(<<"Invalid password">>),
   Some(<<"\n", " ", "Nom d", "&#39;", "utilisateur invalide", " ">>)}

SessionCookieHeaders ==
  { <<>>, << <<"PHPSESSID", "">> >>, << <<"lang", "fr">>, <<"PHPSESSID", "sA">> >>,
    << <<"PHPSESSID", "sB">> >> }

Statuses == {200, 302}

E1 == [id |-> "11", denomination |-> "ACME", siren |-> "111111111", formeJuridique |-> "SAS"]
E2 == [id |-> "22", denomination |-> "BETA", siren |-> "222222222", formeJuridique |-> ""]
EntrepriseLists == { <<>>, <<E1>>, <<E1, E2>> }
SirenArgs == {Null, Some("111111111"), Some("999999999")}
Choices == {"1", "2", "3", "x"}

\* ----------------------------------------------------------------- state
VARIABLES
  store,        \* OS secure store: [<<service, name>> -> JSON text], present keys only
  now,          \* Date.now(), milliseconds
  ticks,        \* clock steps taken (bounded by MaxTicks)
  echo,         \* terminal echo enabled
  evicted,      \* history: the kbis session entry was removed by an expired read
  tool,         \* running tool: "none", "kbis", "urssaf", "script"
  pc,           \* position of the run
  reqs,         \* HTTP requests issued by the run, in order: <<label, cookie>>
  hosts,        \* hosts those requests went to
  err,          \* error thrown by the run
  out,          \* what the run printed or wrote
  creds,        \* getOrPromptCredentials: { login, password } obtained by the run
  typed,        \* getOrPromptCredentials: const login
  stored,       \* getSessionToken: const stored
  cached,       \* authenticate: const cached
  keycloakUrl,  \* login: const keycloakUrl
  authCookies,  \* login: const authCookies
  actionUrl,    \* login: const actionUrl
  loginRes,     \* login: const loginRes (status, location, body read)
  currentUrl,   \* login: let currentUrl
  i,            \* login: loop counter
  phpsessid,    \* login: let phpsessid / downloadKbis: const phpsessid
  entreprises,  \* downloadKbis: const entreprises
  entreprise,   \* downloadKbis: const entreprise
  cnxRes,       \* urssaf login: const res (ctxUrssaf cookie, body, Location), in a set
  compte,       \* urssaf login: const compte
  clientId,     \* urssaf login: const clientId
  codeVerifier, \* urssaf login: const codeVerifier
  tokenBds,     \* urssaf login: const tokenBds
  authReq,      \* urssaf login: query of the authorize request, in a set
  authRes,      \* urssaf login: Location of the authorize response, in a set
  tokenReq,     \* urssaf login: body of the token request, in a set
  auth,         \* urssaf main: const auth = { compte, access_token }, in a set
  hopRes,       \* login: const res of the redirect loop (status, Location, PHPSESSID), in a set
  drawn,        \* number of values randomBytes has given so far
  prev,         \* history: how the previous run ended
  prevPkce,     \* history: codeVerifier, state, nonce of the last run that made them, in a set
  kbisJson,     \* downloadKbis: const kbisJson (success), in a set
  procs,        \* two concurrent kbis runs: each one's position and getSessionToken local
  last          \* history: per key, the last set / delete made by a concurrent run, in a set

envVars == <<store, now, ticks, echo, evicted>>
runVars == <<tool, pc, reqs, hosts, err, out>>
credVars == <<creds, typed>>
sessVars == <<stored, cached>>
loginVars == <<keycloakUrl, authCookies, actionUrl, loginRes, currentUrl, i, hopRes>>
dlVars == <<phpsessid, entreprises, entreprise, kbisJson>>
kbisVars == <<sessVars, loginVars, dlVars>>

urVars == <<cnxRes, compte, clientId, codeVerifier, tokenBds, authReq, authRes, tokenReq, auth>>

histVars == <<drawn, prev, prevPkce>>
raceVars == <<procs, last>>

vars == <<envVars, runVars, credVars, kbisVars, urVars, histVars, raceVars>>

NoErr == [name |-> "none", text |-> <<>>]
Error(name) == [name |-> name, text |-> <<>>]
NoRes == [status |-> 0, location |-> Null, alert |-> Null]

NoPrev == "other"

\* two invocations of download-kbis.ts running at once, and the two keys
\* they use
Procs == {"a", "b"}
RaceKeys == {CredKey("kbis"), SessKey("kbis")}
NoRun == [pc |-> "idle", stored |-> Null, sets |-> {}]

\* everything but the secure store's content
InitRun ==
  /\ now = 0 /\ ticks = 0 /\ echo = TRUE /\ evicted = FALSE
  /\ tool = "none" /\ pc = "idle"
  /\ reqs = <<>> /\ hosts = {} /\ err = NoErr /\ out = "none"
  /\ creds = Null /\ typed = <<>>
  /\ stored = Null /\ cached = Null
  /\ keycloakUrl = Null /\ authCookies = <<>> /\ actionUrl = <<>>
  /\ loginRes = NoRes /\ currentUrl = <<>> /\ i = 0
  /\ phpsessid = "" /\ entreprises = <<>> /\ entreprise = Null
  /\ cnxRes = Null /\ compte = Null /\ clientId = Null /\ codeVerifier = ""
  /\ tokenBds = Null /\ authReq = Null /\ authRes = Null /\ tokenReq = Null
  /\ auth = Null /\ hopRes = Null /\ kbisJson = Null
  /\ drawn = 0 /\ prev = NoPrev /\ prevPkce = Null
  /\ procs = [p \in Procs |-> NoRun] /\ last = [key \in RaceKeys |-> Null]

Init == store = <<>> /\ InitRun

\* the run ends with an uncaught error
Throw(e) == pc' = "exit" /\ err' = e

\* the run goes on
Goto(next) == pc' = next /\ err' = err

\* a request: what it is, the host it goes to, its Cookie header (Null: none)
Request(label, host, cookie) ==
  /\ reqs' = Append(reqs, <<label, cookie>>)
  /\ hosts' = hosts \cup {host}

NoRequest == UNCHANGED <<reqs, hosts>>

\* how far Date.now() may advance between two steps
ClockSteps == {1, TtlMinutes * 60 * 1000 - 1}

Tick ==
  /\ UNCHANGED histVars
  /\ UNCHANGED raceVars
  /\ UNCHANGED urVars
  /\ ticks < MaxTicks
  /\ \E d \in ClockSteps : now' = now + d
  /\ ticks' = ticks + 1
  /\ UNCHANGED <<store, echo, evicted, runVars, credVars, kbisVars>>

\* ------------------------------------------------ utils.ts: credentials
\* where getOrPromptCredentials returns to
AfterCredentials == IF tool = "kbis" THEN "kLoginPage" ELSE "uCnx"

\* getOrPromptCredentials: getCredentials(name), returned when stored
GetCredentials ==
  /\ UNCHANGED histVars
  /\ UNCHANGED raceVars
  /\ UNCHANGED urVars
  /\ pc = "gCreds"
  /\ LET got == SecretsGet(store, CredKey(tool)) IN
       IF got # Null
       THEN creds' = Some(ParseCredentials(The(got))) /\ Goto(AfterCredentials)
       ELSE creds' = creds /\ Goto("gAsk")
  /\ UNCHANGED <<envVars, tool, reqs, hosts, out, typed, kbisVars>>

\* ask(loginPrompt): a line arrives, or stdin ends / the user interrupts and
\* the process goes away with the promise pending
Ask ==
  /\ UNCHANGED histVars
  /\ UNCHANGED raceVars
  /\ UNCHANGED urVars
  /\ pc = "gAsk"
  /\ \E ev \in {"data", "end"} :
       IF ev = "data"
       THEN (\E line \in LoginLines : typed' = Trim(line)) /\ Goto("pwOff")
       ELSE typed' = typed /\ Throw(Error("interrupted"))
  /\ UNCHANGED <<envVars, tool, reqs, hosts, out, creds, kbisVars>>

\* askPassword: await Bun.$`stty -echo` (throws when stty fails)
SttyOff ==
  /\ UNCHANGED histVars
  /\ UNCHANGED raceVars
  /\ UNCHANGED urVars
  /\ pc = "pwOff"
  /\ \E ok \in BOOLEAN :
       IF ok
       THEN echo' = FALSE /\ Goto("pwWait")
       ELSE echo' = echo /\ Throw(Error("ShellError"))
  /\ UNCHANGED <<store, now, ticks, evicted, tool, reqs, hosts, out, credVars, kbisVars>>

\* askPassword: the password line arrives (creds holds login and password
\* until setCredentials), or stdin ends / the user interrupts
AskPassword ==
  /\ UNCHANGED histVars
  /\ UNCHANGED raceVars
  /\ UNCHANGED urVars
  /\ pc = "pwWait"
  /\ \E ev \in {"data", "end"} :
       IF ev = "data"
       THEN /\ \E line \in PasswordLines :
                 creds' = Some([login |-> typed, password |-> Trim(line)])
            /\ Goto("pwOn")
       ELSE creds' = creds /\ Throw(Error("interrupted"))
  /\ UNCHANGED <<envVars, tool, reqs, hosts, out, typed, kbisVars>>

\* askPassword: await Bun.$`stty echo`
SttyOn ==
  /\ UNCHANGED histVars
  /\ UNCHANGED raceVars
  /\ UNCHANGED urVars
  /\ pc = "pwOn"
  /\ echo' = TRUE
  /\ Goto("gSet")
  /\ UNCHANGED <<store, now, ticks, evicted, tool, reqs, hosts, out, credVars, kbisVars>>

\* setCredentials(name, login, password), then return { login, password }
SetCredentials ==
  /\ UNCHANGED histVars
  /\ UNCHANGED raceVars
  /\ UNCHANGED urVars
  /\ pc = "gSet"
  /\ store' = SecretsSet(store, CredKey(tool),
                         CredentialsJson(The(creds).login, The(creds).password))
  /\ Goto(AfterCredentials)
  /\ UNCHANGED <<now, ticks, echo, evicted, tool, reqs, hosts, out, credVars, kbisVars>>

\* ------------------------------------------------------------ mon-kbis.ts
\* process.argv: --help, logout, or a run
KbisStart ==
  /\ UNCHANGED histVars
  /\ UNCHANGED raceVars
  /\ UNCHANGED urVars
  /\ pc = "idle"
  /\ tool' = "kbis"
  /\ \E cmd \in {"help", "logout", "run"} :
       CASE cmd = "help" -> pc' = "exit" /\ out' = "usage"
         [] cmd = "logout" -> pc' = "kLogout" /\ out' = out
         [] OTHER -> pc' = "kAuth" /\ out' = out
  /\ UNCHANGED <<envVars, reqs, hosts, err, credVars, kbisVars>>

\* logout: await deleteCredentials("kbis")
KbisLogoutCredentials ==
  /\ UNCHANGED histVars
  /\ UNCHANGED raceVars
  /\ UNCHANGED urVars
  /\ pc = "kLogout"
  /\ store' = SecretsDelete(store, CredKey("kbis"))
  /\ Goto("kLogout2")
  /\ UNCHANGED <<now, ticks, echo, evicted, tool, reqs, hosts, out, credVars, kbisVars>>

KbisLogoutSession_Skipped ==
  /\ pc = "kLogout2"
  /\ out' = "logout"
  /\ Goto("exit")
  /\ UNCHANGED <<envVars, histVars, raceVars, tool, reqs, hosts, credVars, kbisVars, urVars>>

\* logout: await deleteSessionToken("kbis"), message, process.exit(0)
KbisLogoutSession ==
  /\ UNCHANGED histVars
  /\ UNCHANGED raceVars
  /\ UNCHANGED urVars
  /\ pc = "kLogout2"
  /\ store' = SecretsDelete(store, SessKey("kbis"))
  /\ evicted' = FALSE
  /\ out' = "logout"
  /\ Goto("exit")
  /\ UNCHANGED <<now, ticks, echo, tool, reqs, hosts, credVars, kbisVars>>

\* getSessionToken("kbis"): await Bun.secrets.get
SessionRead ==
  /\ UNCHANGED histVars
  /\ UNCHANGED raceVars
  /\ UNCHANGED urVars
  /\ pc = "kAuth"
  /\ stored' = SecretsGet(store, SessKey("kbis"))
  /\ Goto("kSession")
  /\ UNCHANGED <<envVars, tool, reqs, hosts, out, credVars, cached, loginVars, dlVars>>

\* authenticate: if (cached)
CacheHit_Never(ret) == FALSE

CacheHit(ret) == TruthyStr(ret)

\* getSessionToken("kbis"): expiry check (deleting when expired), then
\* authenticate: if (cached) return cached
SessionCheck ==
  /\ UNCHANGED histVars
  /\ UNCHANGED raceVars
  /\ UNCHANGED urVars
  /\ pc = "kSession"
  /\ LET r == GetSessionToken(stored, now) IN
       /\ store' = IF r.del THEN SecretsDelete(store, SessKey("kbis")) ELSE store
       /\ evicted' = (evicted \/ r.del)
       /\ cached' = r.ret
       /\ IF CacheHit(r.ret)
          THEN phpsessid' = The(r.ret) /\ Goto("kList")
          ELSE phpsessid' = phpsessid /\ Goto("gCreds")
  /\ stored' = Null
  /\ UNCHANGED <<now, ticks, echo, tool, reqs, hosts, out, credVars, loginVars,
                 entreprises, entreprise, kbisJson>>

\* login: GET https://monidenum.fr/login, redirect: "manual"
LoginPage ==
  /\ UNCHANGED histVars
  /\ UNCHANGED raceVars
  /\ UNCHANGED urVars
  /\ pc = "kLoginPage"
  /\ Request("login", "monidenum.fr", Null)
  /\ \E loc \in {Null, Some(IdpUrl)} : keycloakUrl' = loc
  /\ Goto("kIdp")
  /\ UNCHANGED <<envVars, tool, out, credVars, sessVars, authCookies, actionUrl,
                 loginRes, currentUrl, i, hopRes, dlVars>>

\* login: GET keycloakUrl, auth-session cookies, form action
IdpPage ==
  /\ UNCHANGED histVars
  /\ UNCHANGED raceVars
  /\ UNCHANGED urVars
  /\ pc = "kIdp"
  /\ IF ~CanFetch(keycloakUrl)
     THEN /\ Throw(Error("TypeError"))
          /\ UNCHANGED <<reqs, hosts, authCookies, actionUrl>>
     ELSE /\ Request("idp", HostOf(The(keycloakUrl)), Null)
          /\ \E headers \in IdpCookieHeaders, action \in ActionAttrs :
               /\ authCookies' = AuthCookies(headers)
               /\ IF action = Null
                  THEN /\ Throw(Error("Impossible de trouver l'URL d'action du formulaire Keycloak"))
                       /\ actionUrl' = actionUrl
                  ELSE /\ actionUrl' = ActionUrl(The(action))
                       /\ Goto("kPost")
  /\ UNCHANGED <<envVars, tool, out, credVars, sessVars, keycloakUrl, loginRes,
                 currentUrl, i, hopRes, dlVars>>

\* login: what the login POST response leads to (NoErr: walk the redirects)
LoginCheck(res) ==
  IF res.status # 302
  THEN [name |-> "Authentification", text |-> ErrorMessage(res.alert)]
  ELSE IF UnexpectedRedirect(res.location)
       THEN Error("Redirection inattendue après authentification")
       ELSE NoErr

\* login: POST actionUrl (username, password, credentialId), redirect: "manual";
\* the body is read only when the status is not 302
LoginPost ==
  /\ UNCHANGED histVars
  /\ UNCHANGED raceVars
  /\ UNCHANGED urVars
  /\ pc = "kPost"
  /\ IF ~StartsWithHttp(actionUrl)
     THEN /\ Throw(Error("TypeError"))
          /\ UNCHANGED <<reqs, hosts, loginRes, currentUrl, i, phpsessid>>
     ELSE /\ Request("post", HostOf(actionUrl), Some(authCookies))
          /\ \E status \in Statuses, loc \in Locations, alert \in Alerts :
               LET res == [status |-> status, location |-> loc,
                           alert |-> IF status # 302 THEN alert ELSE Null]
                   e == LoginCheck(res)
               IN /\ loginRes' = res
                  /\ IF e # NoErr
                     THEN /\ Throw(e)
                          /\ UNCHANGED <<currentUrl, i, phpsessid>>
                     ELSE /\ currentUrl' = The(res.location)
                          /\ phpsessid' = ""
                          /\ i' = 0
                          /\ Goto("kHop")
  /\ UNCHANGED <<envVars, tool, out, credVars, sessVars, keycloakUrl, authCookies,
                 actionUrl, hopRes, entreprises, entreprise, kbisJson>>

\* for (let i = 0; i < 5; i++)
WalkContinues_OneMore(k) == k <= HopBudget

WalkContinues(k) == k < HopBudget

\* one iteration of the redirect loop on a response: the session cookie found
\* (break), or no further redirect (break), or the next URL
HopStep(status, nextUrl, sessionCookie, url, k) ==
  IF TruthyStr(sessionCookie)
  THEN [phpsessid |-> The(sessionCookie), loop |-> FALSE, url |-> url, k |-> k]
  ELSE IF ~Truthy(nextUrl) \/ status # 302
       THEN [phpsessid |-> "", loop |-> FALSE, url |-> url, k |-> k]
       ELSE [phpsessid |-> "", loop |-> WalkContinues(k + 1),
             url |-> ResolveNext(The(nextUrl)), k |-> k + 1]

\* login: fetch(currentUrl, redirect: "manual") in the loop; after the loop the
\* PHPSESSID check; login's locals end with its return
Hop ==
  /\ UNCHANGED histVars
  /\ UNCHANGED raceVars
  /\ UNCHANGED urVars
  /\ pc = "kHop"
  /\ Request("hop", HostOf(currentUrl), Null)
  /\ \E status \in Statuses, loc \in Locations, headers \in SessionCookieHeaders :
       LET r == HopStep(status, loc, CookieGet(headers, "PHPSESSID"), currentUrl, i) IN
         /\ hopRes' = Some([status |-> status, location |-> loc,
                            cookie |-> CookieGet(headers, "PHPSESSID")])
         /\ phpsessid' = r.phpsessid
         /\ IF r.loop
            THEN /\ Goto("kHop")
                 /\ currentUrl' = r.url /\ i' = r.k
                 /\ UNCHANGED <<keycloakUrl, authCookies, actionUrl, loginRes>>
            ELSE IF r.phpsessid = ""
                 THEN /\ Throw(Error("PHPSESSID non trouvé après les redirections"))
                      /\ currentUrl' = r.url /\ i' = r.k
                      /\ UNCHANGED <<keycloakUrl, authCookies, actionUrl, loginRes>>
                 ELSE /\ Goto("kSetSession")
                      /\ keycloakUrl' = Null /\ authCookies' = <<>> /\ actionUrl' = <<>>
                      /\ loginRes' = NoRes /\ currentUrl' = <<>> /\ i' = 0
  /\ UNCHANGED <<envVars, tool, out, credVars, sessVars, entreprises, entreprise, kbisJson>>

\* authenticate: await setSessionToken("kbis", phpsessid, 30); return phpsessid
SetSession ==
  /\ UNCHANGED histVars
  /\ UNCHANGED raceVars
  /\ UNCHANGED urVars
  /\ pc = "kSetSession"
  /\ store' = SecretsSet(store, SessKey("kbis"),
                         SessionJson(phpsessid, ExpiresAt(now, TtlMinutes)))
  /\ evicted' = FALSE
  /\ hopRes' = Null
  /\ Goto("kList")
  /\ UNCHANGED <<now, ticks, echo, tool, reqs, hosts, out, credVars, sessVars, keycloakUrl,
                 authCookies, actionUrl, loginRes, currentUrl, i, dlVars>>

\* entreprises.find((e) => e.siren === sirenArg)
Find(list, siren) ==
  IF \E k \in DOMAIN list : list[k].siren = siren
  THEN Some(list[CHOOSE k \in DOMAIN list :
                   list[k].siren = siren /\ \A j \in 1..(k - 1) : list[j].siren # siren])
  ELSE Null

\* getEntreprises(phpsessid), process.argv's SIREN, then selectEntreprise up to
\* its prompt
List ==
  /\ UNCHANGED histVars
  /\ UNCHANGED raceVars
  /\ UNCHANGED urVars
  /\ pc = "kList"
  /\ Request("list", "monidenum.fr", Some(phpsessid))
  /\ \E list \in EntrepriseLists, sirenArg \in SirenArgs :
       IF Len(list) = 0
       THEN /\ Throw(Error("Aucune entreprise trouvée sur ce compte"))
            /\ UNCHANGED <<entreprises, entreprise>>
       ELSE IF sirenArg # Null
       THEN IF Find(list, The(sirenArg)) = Null
            THEN /\ Throw(Error("SIREN non trouvé"))
                 /\ UNCHANGED <<entreprises, entreprise>>
            ELSE /\ entreprise' = Find(list, The(sirenArg))
                 /\ entreprises' = entreprises
                 /\ Goto("kGet")
       ELSE IF Len(list) = 1
            THEN entreprise' = Some(list[1]) /\ entreprises' = entreprises /\ Goto("kGet")
            ELSE entreprise' = entreprise /\ entreprises' = list /\ Goto("kChoose")
  /\ UNCHANGED <<envVars, tool, out, credVars, sessVars, loginVars, phpsessid, kbisJson>>

\* parseInt(choice, 10) - 1; -1 stands for NaN
ParseIndex(choice) ==
  CASE choice = "1" -> 0 [] choice = "2" -> 1 [] choice = "3" -> 2 [] OTHER -> -1

\* selectEntreprise: ask("Numéro de l'entreprise: ") and the index check
Choose ==
  /\ UNCHANGED histVars
  /\ UNCHANGED raceVars
  /\ UNCHANGED urVars
  /\ pc = "kChoose"
  /\ \E choice \in Choices :
       LET index == ParseIndex(choice) IN
         IF index < 0 \/ index >= Len(entreprises)
         THEN Throw(Error("Choix invalide")) /\ entreprise' = entreprise
         ELSE entreprise' = Some(entreprises[index + 1]) /\ Goto("kGet")
  /\ entreprises' = <<>>
  /\ UNCHANGED <<envVars, tool, reqs, hosts, out, credVars, sessVars, loginVars, phpsessid,
                 kbisJson>>

\* the generation endpoint's answer: JSON with success true or false, or a
\* body that is not JSON
KbisBodies == {"success", "failure", "notJson"}

KbisGet_Recovering ==
  /\ UNCHANGED histVars
  /\ UNCHANGED raceVars
  /\ UNCHANGED urVars
  /\ pc = "kGet"
  /\ Request("kbis", "monidenum.fr", Some(phpsessid))
  /\ \E body \in KbisBodies :
       CASE body = "notJson" ->
              Throw(Error("SyntaxError")) /\ kbisJson' = kbisJson /\ store' = store
         [] body = "failure" ->
              /\ Throw(Error("Échec de la demande KBIS"))
              /\ kbisJson' = Some([success |-> FALSE])
              /\ store' = SecretsDelete(store, SessKey("kbis"))
         [] OTHER -> Goto("kPdf") /\ kbisJson' = Some([success |-> TRUE]) /\ store' = store
  /\ UNCHANGED <<now, ticks, echo, evicted, tool, out, credVars, sessVars, loginVars,
                 phpsessid, entreprises, entreprise>>

\* downloadKbis: POST .../kbis/get, kbisRes.json(), kbisJson.success
KbisGet ==
  /\ UNCHANGED histVars
  /\ UNCHANGED raceVars
  /\ UNCHANGED urVars
  /\ pc = "kGet"
  /\ Request("kbis", "monidenum.fr", Some(phpsessid))
  /\ \E body \in KbisBodies :
       CASE body = "notJson" -> Throw(Error("SyntaxError")) /\ kbisJson' = kbisJson
         [] body = "failure" ->
              Throw(Error("Échec de la demande KBIS")) /\ kbisJson' = Some([success |-> FALSE])
         [] OTHER -> Goto("kPdf") /\ kbisJson' = Some([success |-> TRUE])
  /\ UNCHANGED <<envVars, tool, out, credVars, sessVars, loginVars, phpsessid, entreprises,
                 entreprise>>

Pdf_Retrying ==
  /\ UNCHANGED histVars
  /\ UNCHANGED raceVars
  /\ UNCHANGED urVars
  /\ pc = "kPdf"
  /\ Request("pdf", "monidenum.fr", Some(phpsessid))
  /\ \E ok \in BOOLEAN :
       IF ok
       THEN Goto("exit") /\ out' = "pdf"
       ELSE IF Len(reqs) < 6
            THEN Goto("kPdf") /\ out' = out
            ELSE Throw(Error("Échec du téléchargement du PDF")) /\ out' = out
  /\ UNCHANGED <<envVars, tool, credVars, kbisVars>>

\* downloadKbis: GET the document, pdfRes.ok, Bun.write
Pdf ==
  /\ UNCHANGED histVars
  /\ UNCHANGED raceVars
  /\ UNCHANGED urVars
  /\ pc = "kPdf"
  /\ Request("pdf", "monidenum.fr", Some(phpsessid))
  /\ \E ok \in BOOLEAN :
       IF ok
       THEN Goto("exit") /\ out' = "pdf"
       ELSE Throw(Error("Échec du téléchargement du PDF")) /\ out' = out
  /\ UNCHANGED <<envVars, tool, credVars, kbisVars>>

\* how a run ended, as the next run's history ("stale": an error after the
\* cached session token was reused)
Outcome ==
  IF out = "logout" THEN "logout"
  ELSE IF err.name = "Authentification" THEN "rejected"
  ELSE IF cached # Null /\ err # NoErr THEN "stale"
  ELSE NoPrev

\* the process is gone: the next run starts with fresh locals

Exit ==
  /\ pc = "exit"
  /\ tool' = "none" /\ pc' = "idle"
  /\ reqs' = <<>> /\ hosts' = {} /\ err' = NoErr /\ out' = "none"
  /\ creds' = Null /\ typed' = <<>>
  /\ stored' = Null /\ cached' = Null
  /\ keycloakUrl' = Null /\ authCookies' = <<>> /\ actionUrl' = <<>>
  /\ loginRes' = NoRes /\ currentUrl' = <<>> /\ i' = 0
  /\ phpsessid' = "" /\ entreprises' = <<>> /\ entreprise' = Null
  /\ cnxRes' = Null /\ compte' = Null /\ clientId' = Null /\ codeVerifier' = ""
  /\ tokenBds' = Null /\ authReq' = Null /\ authRes' = Null /\ tokenReq' = Null
  /\ auth' = Null /\ hopRes' = Null /\ kbisJson' = Null
  /\ prev' = Outcome
  /\ prevPkce' = IF authReq # Null
                 THEN Some(<<codeVerifier, The(authReq).state[1], The(authReq).nonce>>)
                 ELSE prevPkce
  /\ UNCHANGED <<envVars, drawn, raceVars>>

\* ------------------------------------------------ mes-echeances-urssaf.ts
\* a ctxUrssaf cookie value: <<"base64", JSON text>>; <<>> is the empty string
Compte1 == [siret |-> "S1", orga |-> "O1", numc |-> "N1"]
CtxGood == <<"base64", << <<"compte", Compte1>> >> >>
CtxNoCompte == <<"base64", << <<"session", "x">> >> >>
CtxNotJson == <<"base64", <<>> >>

CtxCookieHeaders ==
  { <<>>, << <<"lang", <<"fr">> >> >>, << <<"ctxUrssaf", <<>> >> >>,
    << <<"lang", <<"fr">> >>, <<"ctxUrssaf", CtxGood>> >>,
    << <<"ctxUrssaf", CtxNoCompte>> >>, << <<"ctxUrssaf", CtxNotJson>> >> }

\* JSON.parse(Buffer.from(decodeURIComponent(ctxValue), "base64").toString()).compte:
\* ok is FALSE when JSON.parse throws; compte is Null when the member is missing
DecodeCtx(ctxValue) ==
  IF ctxValue[2] = <<>> THEN [ok |-> FALSE, compte |-> Null]
  ELSE IF \E k \in DOMAIN ctxValue[2] : ctxValue[2][k][1] = "compte"
       THEN [ok |-> TRUE, compte |-> Some(JsonField(ctxValue[2], "compte"))]
       ELSE [ok |-> TRUE, compte |-> Null]

\* new URL(location).searchParams.get(name)
SearchParam(u, name) ==
  IF \E k \in 1..(Len(u) - 1) : u[k] = name
  THEN Some(u[(CHOOSE k \in 1..(Len(u) - 1) : u[k] = name) + 1])
  ELSE Null

\* a template literal or URLSearchParams renders null / undefined as text
Text(o) == IF o = Null THEN "null" ELSE The(o)

CnxLocations ==
  {Null, Some(<<"https://", "mon.urssaf.fr", "/redirect", "tokenBds", "bds1">>),
   Some(<<"https://", "mon.urssaf.fr", "/erreur">>)}

AuthorizeLocations ==
  {Null, Some(<<"https://", "webti.urssaf.fr", "/callback", "code", "code1">>),
   Some(<<"https://", "webti.urssaf.fr", "/callback", "error", "login_required">>)}

Random_Fixed(k) == "r1"

\* b64url(randomBytes(32)): the value of the generator's call number k + 1;
\* a cryptographic generator does not give the same 32 bytes twice
Random(k) == ToString(k + 1)

CodeChallenge_Other(verifier) == <<"b64url", "sha256", "0">>

\* b64url(createHash("sha256").update(codeVerifier).digest())
CodeChallenge(verifier) == <<"b64url", "sha256", verifier>>

REJECTED == "Authentification échouée : identifiant ou mot de passe incorrect."
CONTRACT == "Cookie ctxUrssaf non trouvé - l'API URSSAF a peut-être changé"

Labels(rs) == [k \in DOMAIN rs |-> rs[k][1]]

\* process.argv: --help, logout, or a run
UrssafStart ==
  /\ UNCHANGED histVars
  /\ UNCHANGED raceVars
  /\ pc = "idle"
  /\ tool' = "urssaf"
  /\ \E cmd \in {"help", "logout", "run"} :
       CASE cmd = "help" -> pc' = "exit" /\ out' = "usage"
         [] cmd = "logout" -> pc' = "uLogout" /\ out' = out
         [] OTHER -> drawn + 3 <= MaxDraws /\ pc' = "gCreds" /\ out' = out
  /\ UNCHANGED <<envVars, reqs, hosts, err, credVars, kbisVars, urVars>>

\* logout: await deleteCredentials("urssaf"), message, process.exit(0)
UrssafLogout ==
  /\ UNCHANGED histVars
  /\ UNCHANGED raceVars
  /\ pc = "uLogout"
  /\ store' = SecretsDelete(store, CredKey("urssaf"))
  /\ out' = "logout"
  /\ Goto("exit")
  /\ UNCHANGED <<now, ticks, echo, evicted, tool, reqs, hosts, credVars, kbisVars, urVars>>

\* login: what the /cnx response leads to
\*   "reject": deleteCredentials, then the bad-credentials error
\*   "contract": the cookie-not-found error;  "syntax": JSON.parse throws
CnxCheck(res) ==
  LET ctxValue == CookieGet(res.headers, "ctxUrssaf") IN
  IF ~Truthy(ctxValue)
  THEN IF res.bodyError THEN "reject" ELSE "contract"
  ELSE IF ~DecodeCtx(The(ctxValue)).ok THEN "syntax" ELSE "ok"

\* a /cnx response: Set-Cookie headers, whether the body holds "Erreur
\* d'identifiant ou de mot de passe", the Location header
CnxResponses ==
  { [headers |-> h, bodyError |-> b, location |-> l] :
      h \in CtxCookieHeaders, b \in BOOLEAN, l \in CnxLocations }

\* login: POST https://mon.urssaf.fr/cnx, redirect: "manual", up to the next await
Cnx ==
  /\ UNCHANGED histVars
  /\ UNCHANGED raceVars
  /\ pc = "uCnx" /\ tool = "urssaf"
  /\ Request("cnx", "mon.urssaf.fr", Null)
  /\ \E res \in CnxResponses :
       /\ Truthy(CookieGet(res.headers, "ctxUrssaf")) => ~res.bodyError
       /\ cnxRes' = Some(res)
       /\ CASE CnxCheck(res) = "reject" -> Goto("uReject") /\ compte' = compte
            [] CnxCheck(res) = "contract" -> Throw(Error(CONTRACT)) /\ compte' = compte
            [] CnxCheck(res) = "syntax" -> Throw(Error("SyntaxError")) /\ compte' = compte
            [] OTHER -> /\ Goto("oConfig")
                        /\ compte' = DecodeCtx(The(CookieGet(res.headers, "ctxUrssaf"))).compte
  /\ UNCHANGED <<envVars, tool, out, credVars, kbisVars, clientId, codeVerifier, tokenBds,
                 authReq, authRes, tokenReq, auth>>

\* the store after the rejected-credentials branch
RejectStore_Keep(s) == s

RejectStore_Every(s) ==
  SecretsDelete(SecretsDelete(s, CredKey("urssaf")), <<"mes-echeances-urssaf", "credentials">>)

RejectStore(s) == SecretsDelete(s, CredKey("urssaf"))

\* login: await deleteCredentials("urssaf"); throw
Reject ==
  /\ UNCHANGED histVars
  /\ UNCHANGED raceVars
  /\ pc = "uReject"
  /\ store' = RejectStore(store)
  /\ Throw(Error(REJECTED))
  /\ UNCHANGED <<now, ticks, echo, evicted, tool, reqs, hosts, out, credVars, kbisVars, urVars>>

\* configuration.json: .oidc.annabel.clientId
ConfigBodies == {"ok", "noClientId", "noOidc", "notJson"}

\* login: GET configuration.json, then codeVerifier and tokenBds
ConfigStep ==
  /\ UNCHANGED <<prev, prevPkce, raceVars>>
  /\ pc = "oConfig"
  /\ Request("config", "webti.urssaf.fr", Null)
  /\ \E body \in ConfigBodies :
       LET location == The(cnxRes).location IN
       CASE body = "notJson" ->
              Throw(Error("SyntaxError")) /\ UNCHANGED <<clientId, codeVerifier, tokenBds, drawn>>
         [] body = "noOidc" ->
              Throw(Error("TypeError")) /\ UNCHANGED <<clientId, codeVerifier, tokenBds, drawn>>
         [] OTHER ->
              /\ clientId' = IF body = "ok" THEN Some("cid1") ELSE Null
              /\ codeVerifier' = Random(drawn) /\ drawn' = drawn + 1
              /\ IF ~CanFetch(location)
                 THEN Throw(Error("TypeError")) /\ tokenBds' = tokenBds
                 ELSE tokenBds' = SearchParam(The(location), "tokenBds") /\ Goto("oAuthorize")
  /\ UNCHANGED <<envVars, tool, out, credVars, kbisVars, cnxRes, compte, authReq, authRes,
                 tokenReq, auth>>

\* login: GET /api/oauth/v1/authorize, redirect: "manual"; the token request's
\* body is built from the response's Location
AuthorizeStep(cookie) ==
  /\ UNCHANGED <<prev, prevPkce, raceVars>>
  /\ pc = "oAuthorize"
  /\ Request("authorize", "login.urssaf.fr", cookie)
  /\ drawn' = drawn + 2
  /\ \E location \in AuthorizeLocations :
       /\ authReq' = Some([client_id |-> Text(clientId),
                           state |-> <<Random(drawn), "-0000000000-webti">>,
                           redirect_uri |-> "https://webti.urssaf.fr/callback",
                           code_challenge |-> CodeChallenge(codeVerifier),
                           nonce |-> Random(drawn + 1), subject_token |-> Text(tokenBds)])
       /\ authRes' = Some(location)
       /\ IF ~CanFetch(location) THEN Throw(Error("TypeError")) ELSE Goto("oToken")
  /\ UNCHANGED <<envVars, tool, out, credVars, kbisVars, cnxRes, compte, clientId,
                 codeVerifier, tokenBds, tokenReq, auth>>

\* the token endpoint's answer
TokenBodies == {"ok", "noToken", "notJson"}

TokenStep_Caching ==
  /\ UNCHANGED histVars
  /\ UNCHANGED raceVars
  /\ pc = "oToken"
  /\ Request("token", "login.urssaf.fr", Null)
  /\ tokenReq' = Some([code |-> Text(SearchParam(The(The(authRes)), "code")),
                       redirect_uri |-> "https://webti.urssaf.fr/callback",
                       code_verifier |-> codeVerifier, client_id |-> Text(clientId)])
  /\ \E body \in TokenBodies :
       IF body = "notJson"
       THEN Throw(Error("SyntaxError")) /\ auth' = auth /\ store' = store
       ELSE /\ auth' = Some([compte |-> compte,
                             access_token |-> IF body = "ok" THEN Some("at1") ELSE Null])
            /\ store' = SecretsSet(store, SessKey("urssaf"), SessionJson("at1", now))
            /\ Goto("oEcheances")
  /\ UNCHANGED <<now, ticks, echo, evicted, tool, out, credVars, kbisVars, cnxRes, compte,
                 clientId, codeVerifier, tokenBds, authReq, authRes>>

\* login: POST /api/oauth/v1/token; return { compte, access_token }
TokenStep ==
  /\ UNCHANGED histVars
  /\ UNCHANGED raceVars
  /\ pc = "oToken"
  /\ Request("token", "login.urssaf.fr", Null)
  /\ tokenReq' = Some([code |-> Text(SearchParam(The(The(authRes)), "code")),
                       redirect_uri |-> "https://webti.urssaf.fr/callback",
                       code_verifier |-> codeVerifier, client_id |-> Text(clientId)])
  /\ \E body \in TokenBodies :
       IF body = "notJson"
       THEN Throw(Error("SyntaxError")) /\ auth' = auth
       ELSE /\ auth' = Some([compte |-> compte,
                             access_token |-> IF body = "ok" THEN Some("at1") ELSE Null])
            /\ Goto("oEcheances")
  /\ UNCHANGED <<envVars, tool, out, credVars, kbisVars, cnxRes, compte, clientId,
                 codeVerifier, tokenBds, authReq, authRes>>

\* the schedule endpoint's answer
EcheancesBodies == {"array", "object", "notJson"}

\* getEcheances(auth), printEcheances(echeances)
EcheancesStep ==
  /\ UNCHANGED histVars
  /\ UNCHANGED raceVars
  /\ pc = "oEcheances"
  /\ IF The(auth).compte = Null
     THEN Throw(Error("TypeError")) /\ NoRequest /\ out' = out
     ELSE /\ Request("echeances", "api.urssaf.fr", Some(Text(The(auth).access_token)))
          /\ \E body \in EcheancesBodies :
               CASE body = "notJson" -> Throw(Error("SyntaxError")) /\ out' = out
                 [] body = "object" -> Throw(Error("TypeError")) /\ out' = out
                 [] OTHER -> Goto("exit") /\ out' = "table"
  /\ UNCHANGED <<envVars, tool, credVars, kbisVars, urVars>>

Config == tool = "urssaf" /\ ConfigStep
Authorize == tool = "urssaf" /\ AuthorizeStep(Null)
Token == tool = "urssaf" /\ TokenStep
Echeances == tool = "urssaf" /\ EcheancesStep

\* ------------------------------- standalone mes-echeances-urssaf script
keychainKey == <<"mes-echeances-urssaf", "credentials">>

ScriptCredentialsJson(identifiant, password) ==
  << <<"identifiant", identifiant>>, <<"password", password>> >>

ScriptParseCredentials(text) ==
  [identifiant |-> JsonField(text, "identifiant"), password |-> JsonField(text, "password")]

\* process.argv: --help, logout, or a run
ScriptStart ==
  /\ UNCHANGED histVars
  /\ UNCHANGED raceVars
  /\ pc = "idle"
  /\ tool' = "script"
  /\ \E cmd \in {"help", "logout", "run"} :
       CASE cmd = "help" -> pc' = "exit" /\ out' = "usage"
         [] cmd = "logout" -> pc' = "sLogout" /\ out' = out
         [] OTHER -> drawn + 3 <= MaxDraws /\ pc' = "sCreds" /\ out' = out
  /\ UNCHANGED <<envVars, reqs, hosts, err, credVars, kbisVars, urVars>>

\* logout: await Bun.secrets.delete(keychainKey)
ScriptLogout ==
  /\ UNCHANGED histVars
  /\ UNCHANGED raceVars
  /\ pc = "sLogout"
  /\ store' = SecretsDelete(store, keychainKey)
  /\ out' = "logout"
  /\ Goto("exit")
  /\ UNCHANGED <<now, ticks, echo, evicted, tool, reqs, hosts, credVars, kbisVars, urVars>>

\* getCredentials: the stored pair, or the prompts
ScriptGetCredentials ==
  /\ UNCHANGED histVars
  /\ UNCHANGED raceVars
  /\ pc = "sCreds"
  /\ LET got == SecretsGet(store, keychainKey) IN
       IF got # Null
       THEN creds' = Some(ScriptParseCredentials(The(got))) /\ Goto("sCnx")
       ELSE creds' = creds /\ Goto("sAsk")
  /\ UNCHANGED <<envVars, tool, reqs, hosts, out, typed, kbisVars, urVars>>

\* getCredentials: const identifiant = await ask()
ScriptAsk ==
  /\ UNCHANGED histVars
  /\ UNCHANGED raceVars
  /\ pc = "sAsk"
  /\ \E ev \in {"data", "end"} :
       IF ev = "data"
       THEN (\E line \in LoginLines : typed' = Trim(line)) /\ Goto("sPwOff")
       ELSE typed' = typed /\ Throw(Error("interrupted"))
  /\ UNCHANGED <<envVars, tool, reqs, hosts, out, creds, kbisVars, urVars>>

\* askPass: await Bun.$`stty -echo`
ScriptSttyOff ==
  /\ UNCHANGED histVars
  /\ UNCHANGED raceVars
  /\ pc = "sPwOff"
  /\ \E ok \in BOOLEAN :
       IF ok
       THEN echo' = FALSE /\ Goto("sPwWait")
       ELSE echo' = echo /\ Throw(Error("ShellError"))
  /\ UNCHANGED <<store, now, ticks, evicted, tool, reqs, hosts, out, credVars, kbisVars, urVars>>

\* askPass: const pass = await ask()
ScriptAskPass ==
  /\ UNCHANGED histVars
  /\ UNCHANGED raceVars
  /\ pc = "sPwWait"
  /\ \E ev \in {"data", "end"} :
       IF ev = "data"
       THEN /\ \E line \in PasswordLines :
                 creds' = Some([identifiant |-> typed, password |-> Trim(line)])
            /\ Goto("sPwOn")
       ELSE creds' = creds /\ Throw(Error("interrupted"))
  /\ UNCHANGED <<envVars, tool, reqs, hosts, out, typed, kbisVars, urVars>>

\* askPass: await Bun.$`stty echo`
ScriptSttyOn ==
  /\ UNCHANGED histVars
  /\ UNCHANGED raceVars
  /\ pc = "sPwOn"
  /\ echo' = TRUE
  /\ Goto("sSet")
  /\ UNCHANGED <<store, now, ticks, evicted, tool, reqs, hosts, out, credVars, kbisVars, urVars>>

\* getCredentials: await Bun.secrets.set(...); return creds
ScriptSetCredentials ==
  /\ UNCHANGED histVars
  /\ UNCHANGED raceVars
  /\ pc = "sSet"
  /\ store' = SecretsSet(store, keychainKey,
                         ScriptCredentialsJson(The(creds).identifiant, The(creds).password))
  /\ Goto("sCnx")
  /\ UNCHANGED <<now, ticks, echo, evicted, tool, reqs, hosts, out, credVars, kbisVars, urVars>>

\* login: cookies.find(([n]) => n === "ctxUrssaf")?.[1] decoded without a check:
\* a missing or empty value makes JSON.parse throw
ScriptCnxCheck(res) ==
  LET ctxValue == CookieGet(res.headers, "ctxUrssaf") IN
  IF ~Truthy(ctxValue) THEN "syntax"
  ELSE IF ~DecodeCtx(The(ctxValue)).ok THEN "syntax" ELSE "ok"

\* login: POST https://mon.urssaf.fr/cnx, redirect: "manual", up to the next await
ScriptCnx ==
  /\ UNCHANGED histVars
  /\ UNCHANGED raceVars
  /\ pc = "sCnx"
  /\ Request("cnx", "mon.urssaf.fr", Null)
  /\ \E res \in CnxResponses :
       /\ Truthy(CookieGet(res.headers, "ctxUrssaf")) => ~res.bodyError
       /\ cnxRes' = Some(res)
       /\ IF ScriptCnxCheck(res) = "syntax"
          THEN Throw(Error("SyntaxError")) /\ compte' = compte
          ELSE /\ Goto("oConfig")
               /\ compte' = DecodeCtx(The(CookieGet(res.headers, "ctxUrssaf"))).compte
  /\ UNCHANGED <<envVars, tool, out, credVars, kbisVars, clientId, codeVerifier, tokenBds,
                 authReq, authRes, tokenReq, auth>>

ScriptConfig == tool = "script" /\ ConfigStep
ScriptAuthorize == tool = "script" /\ AuthorizeStep(Some(The(cnxRes).headers))
ScriptToken == tool = "script" /\ TokenStep
ScriptEcheances == tool = "script" /\ EcheancesStep

UrssafNext ==
  \/ UrssafStart \/ UrssafLogout
  \/ GetCredentials \/ Ask \/ SttyOff \/ AskPassword \/ SttyOn \/ SetCredentials
  \/ Cnx \/ Reject \/ Config \/ Authorize \/ Token \/ Echeances
  \/ ScriptStart \/ ScriptLogout
  \/ ScriptGetCredentials \/ ScriptAsk \/ ScriptSttyOff \/ ScriptAskPass \/ ScriptSttyOn
  \/ ScriptSetCredentials
  \/ ScriptCnx \/ ScriptConfig \/ ScriptAuthorize \/ ScriptToken \/ ScriptEcheances
  \/ Exit

UrssafSpec == Init /\ [][UrssafNext]_vars

KbisNext ==
  \/ Tick
  \/ KbisStart \/ KbisLogoutCredentials \/ KbisLogoutSession
  \/ SessionRead \/ SessionCheck
  \/ GetCredentials \/ Ask \/ SttyOff \/ AskPassword \/ SttyOn \/ SetCredentials
  \/ LoginPage \/ IdpPage \/ LoginPost \/ Hop \/ SetSession
  \/ List \/ Choose \/ KbisGet \/ Pdf
  \/ Exit

Spec == Init /\ [][KbisNext]_vars

\* the kbis tool started on a store in which the URSSAF tools have saved
\* their credentials
SharedStore ==
  SecretsSet(SecretsSet(<<>>, CredKey("urssaf"), CredentialsJson(<<"u">>, <<"p">>)),
             keychainKey, ScriptCredentialsJson(<<"u">>, <<"p">>))

SharedInit == store = SharedStore /\ InitRun

SharedSpec == SharedInit /\ [][KbisNext]_vars

\* ------------------------------------------ two runs on the same store
\* what each run types at the prompts and the session cookie it is given
LoginOf(p) == <<"u", p>>
PasswordOf(p) == <<"p", p>>
TokenOf(p) == IF p = "a" THEN "sA" ELSE "sB"

\* the store the two runs start on: empty, or left by an earlier run with a
\* session entry that has expired or not
EarlierCredential == CredentialsJson(<<"u">>, <<"p">>)
RaceStores ==
  {<<>>,
   SecretsSet(SecretsSet(<<>>, CredKey("kbis"), EarlierCredential),
              SessKey("kbis"), SessionJson("s0", 0 - 1)),
   SecretsSet(SecretsSet(<<>>, CredKey("kbis"), EarlierCredential),
              SessKey("kbis"), SessionJson("s0", ExpiresAt(0, TtlMinutes)))}

RaceInit == store \in RaceStores /\ InitRun

\* a run moves on; one Bun.secrets call is one step
RaceGoto(p, next, read, sets) ==
  procs' = [procs EXCEPT ![p] = [pc |-> next, stored |-> read, sets |-> sets]]
Mutation(p, key, op, value) ==
  last' = [last EXCEPT ![key] = Some([by |-> p, op |-> op, value |-> value])]
RaceFrame ==
  UNCHANGED <<now, ticks, echo, evicted, runVars, credVars, kbisVars, urVars, histVars>>

\* process.argv: logout, or a run
RaceStart ==
  \E p \in Procs, cmd \in {"logout", "run"} :
    /\ procs[p].pc = "idle"
    /\ RaceGoto(p, IF cmd = "logout" THEN "kLogout" ELSE "kAuth", Null, {})
    /\ UNCHANGED <<store, last>>
    /\ RaceFrame

\* logout: await deleteCredentials("kbis")
RaceLogoutCredentials ==
  \E p \in Procs :
    /\ procs[p].pc = "kLogout"
    /\ store' = SecretsDelete(store, CredKey("kbis"))
    /\ Mutation(p, CredKey("kbis"), "delete", <<>>)
    /\ RaceGoto(p, "kLogout2", Null, procs[p].sets)
    /\ RaceFrame

\* logout: await deleteSessionToken("kbis")
RaceLogoutSession ==
  \E p \in Procs :
    /\ procs[p].pc = "kLogout2"
    /\ store' = SecretsDelete(store, SessKey("kbis"))
    /\ Mutation(p, SessKey("kbis"), "delete", <<>>)
    /\ RaceGoto(p, "done", Null, procs[p].sets)
    /\ RaceFrame

\* getSessionToken("kbis"): await Bun.secrets.get
RaceSessionRead ==
  \E p \in Procs :
    /\ procs[p].pc = "kAuth"
    /\ RaceGoto(p, "kSession", SecretsGet(store, SessKey("kbis")), procs[p].sets)
    /\ UNCHANGED <<store, last>>
    /\ RaceFrame

\* getSessionToken("kbis"): expiry check, await deleteSessionToken when
\* expired; authenticate: if (cached) return cached
RaceSessionCheck ==
  \E p \in Procs :
    /\ procs[p].pc = "kSession"
    /\ LET r == GetSessionToken(procs[p].stored, now) IN
         /\ IF r.del
            THEN /\ store' = SecretsDelete(store, SessKey("kbis"))
                 /\ Mutation(p, SessKey("kbis"), "delete", <<>>)
            ELSE UNCHANGED <<store, last>>
         /\ RaceGoto(p, IF CacheHit(r.ret) THEN "done" ELSE "gCreds", Null, procs[p].sets)
    /\ RaceFrame

\* getOrPromptCredentials: getCredentials("kbis"), returned when stored,
\* else the two prompts
RaceGetCredentials ==
  \E p \in Procs :
    /\ procs[p].pc = "gCreds"
    /\ RaceGoto(p, IF SecretsGet(store, CredKey("kbis")) # Null THEN "kLogin" ELSE "gSet",
                Null, procs[p].sets)
    /\ UNCHANGED <<store, last>>
    /\ RaceFrame

\* getOrPromptCredentials: await setCredentials("kbis", login, password)
RaceSetCredentials ==
  \E p \in Procs :
    /\ procs[p].pc = "gSet"
    /\ LET value == CredentialsJson(LoginOf(p), PasswordOf(p)) IN
         /\ store' = SecretsSet(store, CredKey("kbis"), value)
         /\ Mutation(p, CredKey("kbis"), "set", value)
    /\ RaceGoto(p, "kLogin", Null, procs[p].sets \cup {CredKey("kbis")})
    /\ RaceFrame

\* authenticate: await login(email, password) returns the session cookie or
\* throws
RaceLogin ==
  \E p \in Procs, ok \in BOOLEAN :
    /\ procs[p].pc = "kLogin"
    /\ RaceGoto(p, IF ok THEN "kSetSession" ELSE "done", Null, procs[p].sets)
    /\ UNCHANGED <<store, last>>
    /\ RaceFrame

\* authenticate: await setSessionToken("kbis", phpsessid, 30)
RaceSetSession ==
  \E p \in Procs :
    /\ procs[p].pc = "kSetSession"
    /\ LET value == SessionJson(TokenOf(p), ExpiresAt(now, TtlMinutes)) IN
         /\ store' = SecretsSet(store, SessKey("kbis"), value)
         /\ Mutation(p, SessKey("kbis"), "set", value)
    /\ RaceGoto(p, "done", Null, procs[p].sets \cup {SessKey("kbis")})
    /\ RaceFrame

RaceNext ==
  \/ Tick
  \/ RaceStart \/ RaceLogoutCredentials \/ RaceLogoutSession
  \/ RaceSessionRead \/ RaceSessionCheck
  \/ RaceGetCredentials \/ RaceSetCredentials \/ RaceLogin \/ RaceSetSession

RaceSpec == RaceInit /\ [][RaceNext]_vars

\* the tool with the clock standing still (the handshake reads no clock)
WalkNext ==
  \/ KbisStart \/ KbisLogoutCredentials \/ KbisLogoutSession
  \/ SessionRead \/ SessionCheck
  \/ GetCredentials \/ Ask \/ SttyOff \/ AskPassword \/ SttyOn \/ SetCredentials
  \/ LoginPage \/ IdpPage \/ LoginPost \/ Hop \/ SetSession
  \/ List \/ Choose \/ KbisGet \/ Pdf
  \/ Exit

\* every awaited response of the redirect walk arrives
FairSpec == Init /\ [][WalkNext]_vars /\ WF_vars(Hop)

TypeOK ==
  /\ pc \in {"idle", "exit", "kLogout", "kLogout2", "kAuth", "kSession", "gCreds", "gAsk",
             "pwOff", "pwWait", "pwOn", "gSet", "kLoginPage", "kIdp", "kPost", "kHop",
             "kSetSession", "kList", "kChoose", "kGet", "kPdf", "uLogout", "uCnx",
             "uReject", "oConfig", "oAuthorize", "oToken", "oEcheances", "sLogout", "sCreds",
             "sAsk", "sPwOff", "sPwWait", "sPwOn", "sSet", "sCnx"}
  /\ i \in 0..HopBudget

\* ================================================================ claims
KbisSession == SessKey("kbis")
HopCount == Cardinality({k \in DOMAIN reqs : reqs[k][1] = "hop"})
Issued(label) == \E k \in DOMAIN reqs : reqs[k][1] = label
IsPrefix(a, b) == Len(a) <= Len(b) /\ \A k \in DOMAIN a : a[k] = b[k]

\* C1: setSessionToken(s, t, ttl) stores t with expiresAt = now + ttl*60000
\* (ttl = 30: 1 800 000 ms), and a getSessionToken(s) made while
\* now <= expiresAt returns exactly t and leaves the store unchanged.
C1_SessionRoundTrip ==
  /\ [][pc = "kSetSession" /\ pc' # "kSetSession" =>
          /\ KbisSession \in DOMAIN store'
          /\ JsonField(store'[KbisSession], "token") = phpsessid
          /\ JsonField(store'[KbisSession], "expiresAt") = now + 1800000]_vars
  /\ [](pc = "kSession" => stored = SecretsGet(store, KbisSession))
  /\ [][(/\ pc = "kSession" /\ pc' # "kSession"
         /\ KbisSession \in DOMAIN store
         /\ now <= JsonField(store[KbisSession], "expiresAt")) =>
          /\ cached' = Some(JsonField(store[KbisSession], "token"))
          /\ store' = store]_vars

\* a cached token was returned at the very instant now = expiresAt, from an
\* entry stored when the clock was not 0
C1_Witness ==
  /\ pc = "kList" /\ cached # Null
  /\ KbisSession \in DOMAIN store
  /\ now = JsonField(store[KbisSession], "expiresAt")
  /\ now > 1800000
  /\ The(cached) = JsonField(store[KbisSession], "token")

\* C2: a getSessionToken(s) made with now > expiresAt returns absent and
\* removes the entry; a later getSessionToken(s) finds no entry and returns
\* absent without deleting anything.
C2_LazyExpiry ==
  /\ [][(/\ pc = "kSession" /\ pc' # "kSession"
         /\ KbisSession \in DOMAIN store
         /\ now > JsonField(store[KbisSession], "expiresAt")) =>
          /\ cached' = Null
          /\ KbisSession \notin DOMAIN store'
          /\ evicted']_vars
  /\ [](evicted => KbisSession \notin DOMAIN store)
  /\ [][pc = "kAuth" /\ pc' # "kAuth" /\ evicted => stored' = Null]_vars
  /\ [][pc = "kSession" /\ pc' # "kSession" /\ stored = Null =>
          cached' = Null /\ store' = store]_vars

\* a read that follows an expiry eviction has found no entry
C2_Witness == evicted /\ pc = "kSession" /\ stored = Null

\* C3: authenticate with an unexpired cached token returns it and skips the
\* handshake: no handshake request, credentials neither read nor prompted,
\* store not written.
C3_CachedReuse ==
  /\ [][(/\ pc = "kSession" /\ pc' # "kSession"
         /\ KbisSession \in DOMAIN store
         /\ now <= JsonField(store[KbisSession], "expiresAt")) =>
          /\ pc' = "kList"
          /\ phpsessid' = JsonField(store[KbisSession], "token")
          /\ UNCHANGED <<store, reqs, creds, typed, echo>>]_vars
  /\ [](TruthyStr(cached) =>
          /\ ~Issued("login") /\ ~Issued("idp") /\ ~Issued("post") /\ ~Issued("hop")
          /\ creds = Null /\ typed = <<>>
          /\ phpsessid = The(cached))
  /\ [][TruthyStr(cached) \/ TruthyStr(cached') => store' = store]_vars

\* a run that reused the cached token got as far as the document download
C3_Witness == pc = "kPdf" /\ TruthyStr(cached) /\ Issued("kbis")

\* C4: a /cnx response without the ctxUrssaf cookie whose body holds the
\* error text makes login fail with the credential-rejected error, with no
\* request after /cnx, and the stored URSSAF credential is absent afterwards.
C4_CredentialRejected ==
  (/\ tool = "urssaf" /\ cnxRes # Null
   /\ CookieGet(The(cnxRes).headers, "ctxUrssaf") = Null
   /\ The(cnxRes).bodyError) =>
     /\ Labels(reqs) = <<"cnx">>
     /\ pc \in {"uReject", "exit"}
     /\ out = "none" /\ auth = Null
     /\ pc = "exit" => /\ err = Error(REJECTED)
                       /\ CredKey("urssaf") \notin DOMAIN store

\* the run had a credential (read or just saved) and ended on the rejection
C4_Witness ==
  /\ tool = "urssaf" /\ pc = "exit" /\ err = Error(REJECTED)
  /\ creds # Null /\ cnxRes # Null /\ The(cnxRes).bodyError
  /\ CredKey("urssaf") \notin DOMAIN store

Decoded(t) == [k \in DOMAIN t |-> IF t[k] = "&#39;" THEN "'" ELSE t[k]]
IsTrimOf(r, t) ==
  \E a \in 1..(Len(t) + 1) :
    /\ Len(r) <= Len(t) + 1 - a
    /\ \A k \in DOMAIN r : r[k] = t[a + k - 1]
    /\ \A k \in 1..(a - 1) : t[k] \in Blank
    /\ \A k \in (a + Len(r))..Len(t) : t[k] \in Blank
    /\ r # <<>> => r[1] \notin Blank /\ r[Len(r)] \notin Blank

\* C6: a login POST answered with a status other than 302 makes login fail
\* with an authentication error carrying the text of the alert element
\* (fixture: "Invalid password"), and no redirect-hop request is made.
C6_LegacyRejection ==
  (loginRes.status \notin {0, 302}) =>
     /\ pc = "exit"
     /\ err.name = "Authentification"
     /\ loginRes.alert # Null => IsTrimOf(err.text, Decoded(The(loginRes.alert)))
     /\ loginRes.alert = Some(<<"Invalid password">>) =>
          err.text = <<"Invalid password">>
     /\ ~Issued("hop")
     /\ reqs[Len(reqs)][1] = "post"

\* the fixture's rejection page was answered to the login POST
C6_Witness ==
  /\ pc = "exit" /\ loginRes.status = 200
  /\ loginRes.alert = Some(<<"Invalid password">>)
  /\ err = [name |-> "Authentification", text |-> <<"Invalid password">>]

\* a Location whose target is in the portal's origin
InPortalOrigin(location) ==
  CanFetch(location) /\ HostOf(The(location)) = "monidenum.fr"

\* C7: every 302 answer to the login POST whose Location target is not in the
\* origin monidenum.fr raises the unexpected-redirect error, and no request
\* is sent to that target.
C7_RedirectOriginGuard ==
  (loginRes.status = 302 /\ ~InPortalOrigin(loginRes.location)) =>
     /\ pc = "exit"
     /\ err = Error("Redirection inattendue après authentification")
     /\ ~Issued("hop")
     /\ "evil.example" \notin hosts

\* the credential store key of the running URSSAF tool
UrssafKey == IF tool = "script" THEN keychainKey ELSE CredKey("urssaf")

\* C8: a /cnx response with neither the ctxUrssaf cookie nor the error text
\* makes the URSSAF login raise the labeled contract-change error, without
\* deleting the stored credential and before any further request.
C8_ContractChange ==
  (/\ tool \in {"urssaf", "script"} /\ cnxRes # Null
   /\ CookieGet(The(cnxRes).headers, "ctxUrssaf") = Null
   /\ ~The(cnxRes).bodyError) =>
     /\ pc = "exit"
     /\ err = Error(CONTRACT)
     /\ Labels(reqs) = <<"cnx">>
     /\ UrssafKey \in DOMAIN store

\* C9: login POST, configuration fetch, authorize call and token exchange
\* run in that order, each at most once, and a failed step (an authorize
\* response without a code, a token response without an access_token
\* included) aborts: no later step, no schedule fetch, no bearer credential.
C9_HandshakeAbort ==
  tool = "urssaf" =>
    /\ IsPrefix(Labels(reqs), <<"cnx", "config", "authorize", "token", "echeances">>)
    /\ err # NoErr => pc = "exit"
    /\ (/\ authRes # Null
        /\ \/ The(authRes) = Null
           \/ SearchParam(The(The(authRes)), "code") = Null) =>
          ~Issued("token") /\ ~Issued("echeances") /\ auth = Null
    /\ auth # Null => The(auth).access_token # Null
    /\ Issued("echeances") => auth # Null /\ The(auth).access_token # Null

\* C10: once the password prompt has been left, by success or by failure,
\* terminal echo is enabled again.
C10_EchoRestored == (echo = FALSE) => pc \in {"pwWait", "pwOn"}

\* C11: deleteCredentials(s) and deleteSessionToken(s) on an absent key raise
\* no error and leave the store unchanged; delete(s); delete(s) gives the
\* same store as one delete(s).
C11_DeleteIdempotent ==
  /\ [](\A key \in {CredKey("kbis"), SessKey("kbis"), CredKey("urssaf")} :
          /\ key \notin DOMAIN store => SecretsDelete(store, key) = store
          /\ SecretsDelete(SecretsDelete(store, key), key) = SecretsDelete(store, key))
  /\ [][pc = "kLogout" /\ pc' # "kLogout" =>
          /\ store' = SecretsDelete(store, CredKey("kbis"))
          /\ CredKey("kbis") \notin DOMAIN store => store' = store
          /\ err' = NoErr /\ pc' = "kLogout2"]_vars
  /\ [][pc = "kLogout2" /\ pc' # "kLogout2" =>
          /\ store' = SecretsDelete(store, SessKey("kbis"))
          /\ SessKey("kbis") \notin DOMAIN store => store' = store
          /\ err' = NoErr /\ pc' = "exit"]_vars
  /\ [][prev = "logout" /\ pc \in {"kLogout", "kLogout2"} => store' = store]_vars

\* a logout that directly followed a logout has ended: both of its deletions
\* found their key absent
C11_Witness ==
  /\ prev = "logout" /\ tool = "kbis" /\ pc = "exit" /\ out = "logout"
  /\ err = NoErr /\ store = <<>>

\* the store keys that hold a credential
CredentialKeys == {CredKey("kbis"), CredKey("urssaf"), keychainKey}
Removed(key) == key \in DOMAIN store /\ key \notin DOMAIN store'
AtLogout == pc \in {"kLogout", "uLogout", "sLogout"}

\* C12 (as stated): a stored credential is removed from the store only by
\* the logout command, and the credential a run has obtained is not modified.
C12_OnlyLogoutDestroys ==
  /\ [][\A key \in CredentialKeys : Removed(key) => AtLogout]_vars
  /\ [][\A key \in CredentialKeys :
          key \in DOMAIN store /\ key \in DOMAIN store' => store'[key] = store[key]]_vars
  /\ [][creds # Null /\ pc' # "idle" => creds' = creds]_vars

\* C12 (amended): a stored credential is removed only by the logout command
\* or, for the urssaf service, by login when the portal rejects it; a stored
\* credential is never rewritten and the credential a run has obtained is
\* not modified.
C12_LogoutOrRejectionDestroys ==
  /\ [][\A key \in CredentialKeys :
          Removed(key) => \/ AtLogout
                          \/ /\ key = CredKey("urssaf") /\ tool = "urssaf" /\ pc = "uReject"
                             /\ err' = Error(REJECTED)]_vars
  /\ [][\A key \in CredentialKeys :
          key \in DOMAIN store /\ key \in DOMAIN store' => store'[key] = store[key]]_vars
  /\ [][creds # Null /\ pc' # "idle" => creds' = creds]_vars

\* the rejection removed the urssaf credential and left the script's entry
C12_Witness ==
  /\ tool = "urssaf" /\ pc = "exit" /\ err = Error(REJECTED)
  /\ CredKey("urssaf") \notin DOMAIN store /\ keychainKey \in DOMAIN store
  /\ creds # Null /\ typed = <<>>

\* the credential entry of the service the running tool names
ServiceKey == CredKey(tool)

\* C13: getOrPromptCredentials(service) returns a stored credential
\* unchanged, with no prompt and no store write; otherwise it prompts the
\* login, then the password, then persists the pair under the service name,
\* and the credential it returns is the one persisted.
C13_GetOrPrompt ==
  /\ [][pc = "gCreds" /\ pc' # "gCreds" =>
          IF ServiceKey \in DOMAIN store
          THEN /\ creds' # Null
               /\ The(creds').login = JsonField(store[ServiceKey], "login")
               /\ The(creds').password = JsonField(store[ServiceKey], "password")
               /\ pc' = AfterCredentials
               /\ UNCHANGED <<store, typed, echo>>
          ELSE /\ pc' = "gAsk" /\ creds' = Null
               /\ UNCHANGED <<store, typed, echo>>]_vars
  /\ [][pc = "gAsk" /\ pc' \notin {"gAsk", "exit"} => pc' = "pwOff" /\ store' = store]_vars
  /\ [][pc = "pwOff" /\ pc' \notin {"pwOff", "exit"} => pc' = "pwWait" /\ store' = store]_vars
  /\ [][pc = "pwWait" /\ pc' \notin {"pwWait", "exit"} =>
          /\ pc' = "pwOn" /\ store' = store
          /\ creds' # Null /\ The(creds').login = typed]_vars
  /\ [][pc = "pwOn" /\ pc' \notin {"pwOn", "exit"} =>
          pc' = "gSet" /\ UNCHANGED <<store, creds>>]_vars
  /\ [](pc \in {"gAsk", "pwOff", "pwWait", "pwOn", "gSet"} => ServiceKey \notin DOMAIN store)
  /\ [][pc = "gSet" /\ pc' # "gSet" =>
          /\ pc' = AfterCredentials /\ creds' = creds
          /\ DOMAIN store' = DOMAIN store \cup {ServiceKey}
          /\ \A key \in DOMAIN store : store'[key] = store[key]
          /\ JsonField(store'[ServiceKey], "login") = The(creds').login
          /\ JsonField(store'[ServiceKey], "password") = The(creds').password]_vars

\* a prompted pair (password typed with blanks around it) was persisted and
\* returned to the URSSAF login
C13_Witness ==
  /\ tool = "urssaf" /\ pc = "uCnx" /\ typed = <<"u">>
  /\ ServiceKey \in DOMAIN store
  /\ The(creds) = [login |-> <<"u">>, password |-> <<"q">>]
  /\ JsonField(store[ServiceKey], "password") = <<"q">>

\* the entries of the URSSAF tools
UrssafEntries(s) ==
  [key \in DOMAIN s \cap {CredKey("urssaf"), SessKey("urssaf"), keychainKey} |-> s[key]]
\* positions of a kbis run from the first handshake request on
InHandshake == {"kLoginPage", "kIdp", "kPost", "kHop"}
AfterHandshake == {"kSetSession", "kList", "kChoose", "kGet", "kPdf"}

\* C14: the kbis logout removes the kbis credential and the kbis session
\* token, issues no request and leaves the urssaf entries untouched; the next
\* kbis invocation finds no cached token, prompts for the credential and runs
\* the whole handshake.
C14_KbisLogout ==
  /\ [][(pc \in {"kLogout", "kLogout2"}) =>
          /\ reqs' = <<>> /\ hosts' = {}
          /\ UrssafEntries(store') = UrssafEntries(store)]_vars
  /\ [](pc = "exit" /\ out = "logout" =>
          /\ CredKey("kbis") \notin DOMAIN store
          /\ SessKey("kbis") \notin DOMAIN store
          /\ UrssafEntries(store) = SharedStore
          /\ reqs = <<>> /\ err = NoErr)
  /\ [](prev = "logout" /\ tool = "kbis" /\ out \notin {"logout", "usage"} =>
          /\ cached = Null /\ stored = Null
          /\ pc = "gCreds" => CredKey("kbis") \notin DOMAIN store
          /\ pc \in InHandshake \cup AfterHandshake => typed # <<>> /\ creds # Null
          /\ pc \in AfterHandshake =>
               IsPrefix(<<"login", "idp", "post", "hop">>, Labels(reqs)))

\* the run that followed a logout prompted and completed the handshake, the
\* URSSAF entries still in the store
C14_Witness ==
  /\ prev = "logout" /\ tool = "kbis" /\ pc = "kSetSession"
  /\ typed # <<>> /\ Issued("hop")
  /\ UrssafEntries(store) = SharedStore

\* positions of a URSSAF run after the login POST
AfterCnx == {"oConfig", "oAuthorize", "oToken", "oEcheances"}
Handshake == <<"cnx", "config", "authorize", "token", "echeances">>

\* C15: the URSSAF tool never caches: no session-token entry is written, the
\* only store write is the credential (neither the access token nor the PKCE
\* material is persisted), and every invocation that authenticates runs the
\* handshake from the login POST.
C15_NeverCached ==
  /\ [](DOMAIN store \subseteq {CredKey("urssaf"), keychainKey})
  /\ [](\A key \in DOMAIN store :
          /\ Len(store[key]) = 2
          /\ \A k \in DOMAIN store[key] :
               /\ store[key][k][1] \in {"login", "identifiant", "password"}
               /\ store[key][k][2] \in {<<"u">>, <<"p">>, <<"q">>})
  /\ [][store' # store => pc \in {"gSet", "sSet", "uReject", "uLogout", "sLogout"}]_vars
  /\ [](stored = Null /\ cached = Null)
  /\ [](tool \in {"urssaf", "script"} =>
          /\ IsPrefix(Labels(reqs), Handshake)
          /\ pc \in AfterCnx => reqs # <<>> /\ reqs[1][1] = "cnx"
          /\ auth # Null => Labels(reqs) \in {SubSeq(Handshake, 1, 4), Handshake})

\* a second authenticated run in a row, on the stored credential, made all
\* five requests again
C15_Witness ==
  /\ tool = "urssaf" /\ pc = "exit" /\ out = "table"
  /\ prevPkce # Null /\ typed = <<>>
  /\ Labels(reqs) = Handshake
  /\ DOMAIN store = {CredKey("urssaf")}

\* the PKCE material of the running handshake, once the authorize request
\* has been built
Pkce == <<codeVerifier, The(authReq).state[1], The(authReq).nonce>>
Values(t) == {t[1], t[2], t[3]}
BeforeCnx == {"idle", "gCreds", "gAsk", "pwOff", "pwWait", "pwOn", "gSet", "uCnx",
              "sCreds", "sAsk", "sPwOff", "sPwWait", "sPwOn", "sSet", "sCnx"}

\* C16: two successive runs of the OIDC handshake have different
\* codeVerifier / state / nonce triples; the values are made inside each run,
\* none comes from the run before or from the store.
C16_PkceFresh ==
  /\ [](authReq # Null /\ prevPkce # Null =>
          /\ Pkce # The(prevPkce)
          /\ Values(Pkce) \cap Values(The(prevPkce)) = {})
  /\ [](authReq # Null => Cardinality(Values(Pkce)) = 3)
  /\ [](pc \in BeforeCnx \cup {"oConfig"} => codeVerifier = "" /\ authReq = Null)
  /\ [](pc = "oAuthorize" => codeVerifier # "" /\ authReq = Null)
  /\ [][store' # store => pc \in BeforeCnx \cup {"uReject", "uLogout", "sLogout"}]_vars

\* a second handshake has built its authorize request
C16_Witness ==
  /\ tool = "urssaf" /\ pc = "oToken" /\ typed = <<>>
  /\ authReq # Null /\ prevPkce # Null

\* positions of getOrPromptCredentials after a missing entry
Prompting == {"gAsk", "pwOff", "pwWait", "pwOn", "gSet"}

\* C17: a rejected kbis login (non-302 answer to the login POST) leaves the
\* stored kbis credential unchanged; the next invocation reuses it without
\* prompting, until the user logs out.
C17_LegacyKeepsCredential ==
  /\ [][pc = "kPost" /\ pc' = "exit" /\ err'.name = "Authentification" =>
          store' = store]_vars
  /\ [](pc = "exit" /\ err.name = "Authentification" =>
          /\ CredKey("kbis") \in DOMAIN store
          /\ The(creds) = ParseCredentials(store[CredKey("kbis")]))
  /\ [][prev = "rejected" /\ CredKey("kbis") \in DOMAIN store
          /\ CredKey("kbis") \notin DOMAIN store' => pc = "kLogout"]_vars
  /\ [](prev = "rejected" /\ tool = "kbis" /\ pc \notin {"kLogout", "kLogout2"}
          /\ out # "logout" =>
          /\ CredKey("kbis") \in DOMAIN store
          /\ pc \notin Prompting /\ typed = <<>> /\ echo
          /\ creds # Null => The(creds) = ParseCredentials(store[CredKey("kbis")]))

\* the run after a rejected login starts the handshake with the stored
\* credential, nothing having been typed
C17_Witness ==
  /\ prev = "rejected" /\ tool = "kbis" /\ pc = "kLoginPage"
  /\ typed = <<>> /\ creds # Null
  /\ The(creds) = ParseCredentials(store[CredKey("kbis")])

\* the errors login can end with
LoginFailures ==
  {"Impossible de trouver l'URL d'action du formulaire Keycloak", "Authentification",
   "Redirection inattendue après authentification",
   "PHPSESSID non trouvé après les redirections"}
SessionWritten ==
  /\ KbisSession \in DOMAIN store'
  /\ KbisSession \in DOMAIN store => store'[KbisSession] # store[KbisSession]

\* C18: the kbis Session Cache entry is written only after the redirect walk
\* has found a non-empty session cookie, with the 30-minute TTL; a handshake
\* that fails (no form action, non-302 login answer, unexpected redirect,
\* cookie not found) leaves the Session Cache unchanged.
C18_CacheOnlyOnSuccess ==
  /\ [][SessionWritten =>
          /\ pc = "kSetSession" /\ phpsessid # ""
          /\ hopRes # Null /\ The(hopRes).cookie = Some(phpsessid)
          /\ JsonField(store'[KbisSession], "token") = phpsessid
          /\ JsonField(store'[KbisSession], "expiresAt") = now + 30 * 60 * 1000]_vars
  /\ [][(pc \in InHandshake) /\ pc' = "exit" =>
          /\ err'.name \in LoginFailures \cup {"TypeError"}
          /\ store' = store]_vars
  /\ [](pc = "exit" /\ err.name \in LoginFailures => KbisSession \notin DOMAIN store)
  /\ [](pc = "kSetSession" => phpsessid # "" /\ reqs[Len(reqs)][1] = "hop")

\* an expired entry was evicted, then the handshake failed on the redirect
\* target: nothing was written
C18_Witness ==
  /\ pc = "exit" /\ err = Error("Redirection inattendue après authentification")
  /\ evicted /\ KbisSession \notin DOMAIN store

\* a hop response that sets the session cookie (to a non-empty value), and
\* one that redirects further
SetsCookie(res) == res.cookie \notin {Null, Some("")}
Redirects(res) == res.status = 302 /\ res.location \notin {Null, Some(<<>>)}
NotFound == Error("PHPSESSID non trouvé après les redirections")

\* C19: the redirect walk stops at the first hop that sets PHPSESSID: no
\* further hop request is made and the value returned and cached is the one
\* that hop set; a hop that neither sets the cookie nor is a 302 with a
\* Location ends the walk with the cookie-not-found error.
C19_StopAtFirstCookie ==
  /\ [][pc = "kHop" /\ reqs' # reqs =>
          /\ hopRes' # Null
          /\ SetsCookie(The(hopRes')) =>
               pc' = "kSetSession" /\ phpsessid' = The(The(hopRes').cookie)
          /\ ~SetsCookie(The(hopRes')) /\ ~Redirects(The(hopRes')) =>
               pc' = "exit" /\ err' = NotFound
          /\ ~SetsCookie(The(hopRes')) /\ Redirects(The(hopRes')) =>
               IF i < 4 THEN pc' = "kHop" ELSE pc' = "exit" /\ err' = NotFound]_vars
  /\ [](pc = "kHop" /\ hopRes # Null =>
          ~SetsCookie(The(hopRes)) /\ Redirects(The(hopRes)))
  /\ [](pc = "kSetSession" =>
          /\ hopRes # Null /\ SetsCookie(The(hopRes))
          /\ phpsessid = The(The(hopRes).cookie)
          /\ reqs[Len(reqs)][1] = "hop")
  /\ [][pc = "kSetSession" /\ pc' # "kSetSession" =>
          /\ JsonField(store'[KbisSession], "token") = phpsessid
          /\ phpsessid' = phpsessid /\ reqs' = reqs]_vars
  /\ [][(pc \in AfterHandshake) => HopCount' = HopCount]_vars

\* the second hop set the cookie, after one redirect that did not
C19_Witness ==
  /\ pc = "kSetSession" /\ HopCount = 2
  /\ The(hopRes).cookie = Some("sA") /\ phpsessid = "sA"

\* C20: within one run the code_verifier sent to the token endpoint is the
\* value whose SHA-256 digest was sent as code_challenge to the authorize
\* endpoint, the code sent is the one read from the authorize response's
\* Location, and client_id and redirect_uri are the same in both requests.
C20_PkceBinding ==
  tokenReq # Null =>
    /\ authReq # Null /\ authRes # Null /\ The(authRes) # Null
    /\ The(tokenReq).code_verifier = codeVerifier
    /\ The(authReq).code_challenge = <<"b64url", "sha256", The(tokenReq).code_verifier>>
    /\ LET location == The(The(authRes)) IN
         /\ \A k \in 1..(Len(location) - 1) :
              location[k] = "code" => The(tokenReq).code = location[k + 1]
         /\ (\A k \in 1..(Len(location) - 1) : location[k] # "code") =>
              The(tokenReq).code = "null"
    /\ The(tokenReq).client_id = The(authReq).client_id
    /\ The(tokenReq).redirect_uri = The(authReq).redirect_uri

\* the token request of a second handshake, with the code of its Location
C20_Witness ==
  /\ tokenReq # Null /\ prevPkce # Null
  /\ The(tokenReq).code = "code1" /\ The(tokenReq).code_verifier = "4"
  /\ The(authReq).code_challenge = <<"b64url", "sha256", "4">>

Downstream == {"kList", "kChoose", "kGet", "kPdf"}
HandshakeRequests == {"login", "idp", "post", "hop"}
KbisFailure == "Échec de la demande KBIS"
PdfFailure == "Échec du téléchargement du PDF"

\* C21: when a step made with the cached session token fails (list,
\* choice, generation POST, document GET), the run ends with the error, the
\* store is left as it was (the Session Cache entry is neither deleted nor
\* rewritten) and no handshake request or prompt is made; the next
\* invocation gets the same token from the entry while now <= expiresAt, and
\* the entry is removed only by the expiry check or by logout.
C21_NoAutoRecovery ==
  /\ [][(TruthyStr(cached) /\ pc \in Downstream /\ pc' = "exit" /\ err' # NoErr) =>
          /\ store' = store
          /\ \A k \in DOMAIN reqs' : reqs'[k][1] \notin HandshakeRequests]_vars
  /\ [][(TruthyStr(cached) /\ pc \in Downstream) =>
          pc' \in Downstream \cup {"exit"} /\ cached' = cached]_vars
  /\ [](TruthyStr(cached) /\ pc = "exit" /\ err # NoErr =>
          /\ KbisSession \in DOMAIN store
          /\ JsonField(store[KbisSession], "token") = The(cached))
  /\ [][(/\ prev = "stale" /\ pc = "kSession" /\ pc' # "kSession"
         /\ KbisSession \in DOMAIN store
         /\ now <= JsonField(store[KbisSession], "expiresAt")) =>
          /\ cached' = Some(JsonField(store[KbisSession], "token"))
          /\ pc' = "kList" /\ store' = store]_vars
  /\ [][(prev = "stale" /\ Removed(KbisSession)) =>
          \/ pc = "kLogout2"
          \/ pc = "kSession" /\ now > JsonField(store[KbisSession], "expiresAt")]_vars
  /\ [][(prev = "stale" /\ KbisSession \in DOMAIN store /\ KbisSession \in DOMAIN store') =>
          store'[KbisSession] = store[KbisSession]]_vars

\* the run after a failed run reused the same token, made no handshake
\* request, and failed on the generation POST in its turn
C21_Witness ==
  /\ prev = "stale" /\ pc = "exit" /\ TruthyStr(cached)
  /\ err = Error(KbisFailure)
  /\ KbisSession \in DOMAIN store
  /\ JsonField(store[KbisSession], "token") = The(cached)
  /\ \A k \in DOMAIN reqs : reqs[k][1] \notin HandshakeRequests

\* C22: the document GET is issued only once the generation POST has
\* answered success true, after it in the run and with the same session cookie
\* (the run's phpsessid); each of the two is issued at most once per run; a
\* success false answer, or a document GET that is not ok, ends the run with
\* its fatal error, no output file written and no further request.
C22_FetcherOrdering ==
  /\ [](\A a, b \in DOMAIN reqs :
          (reqs[a][1] \in {"kbis", "pdf"} /\ reqs[a][1] = reqs[b][1]) => a = b)
  /\ [](\A b \in DOMAIN reqs : reqs[b][1] = "pdf" =>
          /\ kbisJson = Some([success |-> TRUE])
          /\ \E a \in 1..(b - 1) :
               /\ reqs[a][1] = "kbis"
               /\ reqs[a][2] = reqs[b][2]
               /\ reqs[b][2] = Some(phpsessid))
  /\ [][(pc = "kGet" /\ pc' # "kGet" /\ kbisJson' # Some([success |-> TRUE])) =>
          /\ pc' = "exit" /\ err' # NoErr /\ out' = "none"
          /\ kbisJson' = Some([success |-> FALSE]) => err' = Error(KbisFailure)]_vars
  /\ [][(pc = "kPdf" /\ pc' # "kPdf") =>
          /\ pc' = "exit"
          /\ \/ err' = NoErr /\ out' = "pdf"
             \/ err' = Error(PdfFailure) /\ out' = "none"]_vars
  /\ [](pc = "exit" /\ err.name \in {KbisFailure, PdfFailure, "SyntaxError"} =>
          /\ out = "none"
          /\ err.name # PdfFailure => ~Issued("pdf"))
  /\ [][(pc = "exit" /\ tool = "kbis") =>
          pc' \in {"exit", "idle"} /\ reqs' \in {reqs, <<>>}]_vars

\* the generation POST answered success, the document GET followed with the
\* same cookie and its status was not a success: fatal error, nothing written
C22_Witness ==
  /\ pc = "exit" /\ err = Error(PdfFailure) /\ out = "none"
  /\ kbisJson = Some([success |-> TRUE])
  /\ Len(reqs) >= 2
  /\ reqs[Len(reqs)] = <<"pdf", Some(phpsessid)>>
  /\ reqs[Len(reqs) - 1] = <<"kbis", Some(phpsessid)>>

\* a complete value of a key: the credential one run typed or the earlier
\* one, or a session entry with one run's cookie (or the earlier one) and an
\* expiry
CompleteValue(key, value) ==
  IF key = CredKey("kbis")
  THEN value \in {CredentialsJson(LoginOf(p), PasswordOf(p)) : p \in Procs}
                   \cup {EarlierCredential}
  ELSE /\ Len(value) = 2
       /\ value[1][1] = "token" /\ value[2][1] = "expiresAt"
       /\ value[1][2] \in {TokenOf(p) : p \in Procs} \cup {"s0"}
       /\ value[2][2] \in Int

\* C23: with two runs interleaving their store calls in any order, each of
\* the two keys holds nothing or one complete value (a credential or a session
\* entry as one run wrote it, never parts of two), and what a key holds is
\* what the last set or delete made on it left: the set's value, as its
\* writer built it, or nothing after a delete; this holds in every state, so
\* also once both runs have finished.
C23_LastWriteWins ==
  /\ DOMAIN store \subseteq RaceKeys
  /\ \A key \in DOMAIN store : CompleteValue(key, store[key])
  /\ \A key \in RaceKeys :
       LET held == SecretsGet(store, key) IN
         IF last[key] = Null
         THEN held \in {SecretsGet(s, key) : s \in RaceStores}
         ELSE LET w == The(last[key]) IN
                /\ w.op = "delete" => held = Null
                /\ w.op = "set" =>
                     /\ held = Some(w.value)
                     /\ key = CredKey("kbis") =>
                          ParseCredentials(The(held)) =
                            [login |-> LoginOf(w.by), password |-> PasswordOf(w.by)]
                     /\ key = SessKey("kbis") =>
                          /\ JsonField(The(held), "token") = TokenOf(w.by)
                          /\ JsonField(The(held), "expiresAt") <= ExpiresAt(now, TtlMinutes)

\* both runs have finished, both have written both keys; the credential held
\* is the one of run b and the session entry the one of run a
C23_Witness ==
  /\ \A p \in Procs : procs[p].pc = "done" /\ procs[p].sets = RaceKeys
  /\ ParseCredentials(store[CredKey("kbis")]).login = LoginOf("b")
  /\ JsonField(store[SessKey("kbis")], "token") = TokenOf("a")

\* a run's expiry delete, made on an entry read earlier, removed the session
\* entry the other run had written in between
C23_StaleDelete ==
  /\ \A p \in Procs : procs[p].pc = "done"
  /\ procs["a"].sets = {} /\ SessKey("kbis") \in procs["b"].sets
  /\ last[SessKey("kbis")] # Null
  /\ The(last[SessKey("kbis")]).by = "a"
  /\ SessKey("kbis") \notin DOMAIN store

====
